---- MODULE Spec2Model ----
(***************************************************************************)
(* Model of the Tetris game state of src/main.rs: the board of locked      *)
(* cells, the active piece, the score, the game-over flag and the gravity  *)
(* timer, driven by the key events and the per-frame update of the shell.  *)
(* Board rows and columns are 0-based in the source; sequences here are    *)
(* 1-based, so source cell board[y][x] is board[y + 1][x + 1].             *)
(***************************************************************************)
EXTENDS Integers, Sequences, FiniteSets, TLC

(* Board dimensions, scaled down from the source's 10 x 20 so that the     *)
(* reachable states can be enumerated.                                     *)
BOARD_WIDTH == 6
BOARD_HEIGHT == 4

(* update_interval, in quarter seconds (0.75 s). *)
UPDATE_INTERVAL == 3

(* Exploration bounds: the largest score, the latest clock reading, the    *)
(* most non-empty board cells and the most pieces spawned in one game.    *)
MaxScore == 200
MaxTime == 3
MaxCells == 8
MaxPieces == 2

VARIABLES board, current_piece, game_over, score, last_update, panicked, pieces

vars == <<board, current_piece, game_over, score, last_update, panicked, pieces>>

TRANSPARENT == "TRANSPARENT"

Max(a, b) == IF a >= b THEN a ELSE b

(* The (shape, color) table of generate_piece. *)
shapes ==
  << [shape |-> << <<TRUE, TRUE, TRUE, TRUE>>, <<FALSE, FALSE, FALSE, FALSE>> >>,
      color |-> "KHAKI"],
     [shape |-> << <<TRUE, FALSE, FALSE>>, <<TRUE, TRUE, TRUE>> >>,
      color |-> "BLUE"],
     [shape |-> << <<FALSE, FALSE, TRUE>>, <<TRUE, TRUE, TRUE>> >>,
      color |-> "GOLD"],
     [shape |-> << <<TRUE, TRUE>>, <<TRUE, TRUE>> >>,
      color |-> "YELLOW"],
     [shape |-> << <<FALSE, TRUE, TRUE>>, <<TRUE, TRUE, FALSE>> >>,
      color |-> "GREEN"],
     [shape |-> << <<FALSE, TRUE, FALSE>>, <<TRUE, TRUE, TRUE>> >>,
      color |-> "BROWN"],
     [shape |-> << <<TRUE, TRUE, FALSE>>, <<FALSE, TRUE, TRUE>> >>,
      color |-> "RED"] >>

(* The values gen_range(0..shapes.len()) can draw (1-based here). *)
ShapeIndex == 1..Len(shapes)

(* generate_piece anchoring at BOARD_WIDTH / 2, without the - 1. *)
generate_piece_center(k) ==
  [shape |-> shapes[k].shape, color |-> shapes[k].color,
   x |-> BOARD_WIDTH \div 2, y |-> 0]

generate_piece(k) ==
  [shape |-> shapes[k].shape,
   color |-> shapes[k].color,
   x |-> BOARD_WIDTH \div 2 - 1,
   y |-> 0]

(* piece_collides: the nested loops with their early return, scanning the  *)
(* mask row by row from cell (dx, dy).                                     *)
RECURSIVE collides_from(_, _, _, _)
collides_from(b, p, dy, dx) ==
  IF dy >= Len(p.shape) THEN FALSE
  ELSE IF dx >= Len(p.shape[dy + 1]) THEN collides_from(b, p, dy + 1, 0)
  ELSE IF p.shape[dy + 1][dx + 1]
          /\ LET board_x == p.x + dx
                 board_y == p.y + dy
             IN  \/ board_x >= BOARD_WIDTH
                 \/ board_y >= BOARD_HEIGHT
                 \/ b[board_y + 1][board_x + 1] # TRANSPARENT
       THEN TRUE
       ELSE collides_from(b, p, dy, dx + 1)

(* piece_collides without the `if cell` test: every mask cell counts. *)
piece_collides_anycell(b, p) ==
  \E dy \in 0..(Len(p.shape) - 1), dx \in 0..(Len(p.shape[1]) - 1) :
    \/ p.x + dx >= BOARD_WIDTH
    \/ p.y + dy >= BOARD_HEIGHT
    \/ b[p.y + dy + 1][p.x + dx + 1] # TRANSPARENT

(* piece_collides taking the bottom row for the floor. *)
piece_collides_floor(b, p) ==
  \E dy \in 0..(Len(p.shape) - 1), dx \in 0..(Len(p.shape[1]) - 1) :
    /\ p.shape[dy + 1][dx + 1]
    /\ \/ p.x + dx >= BOARD_WIDTH
       \/ p.y + dy >= BOARD_HEIGHT - 1
       \/ b[p.y + dy + 1][p.x + dx + 1] # TRANSPARENT

piece_collides(b, p) == collides_from(b, p, 0, 0)

(* The state of a TetrisGame as one record; pieces counts the pieces       *)
(* spawned in the explored run (bookkeeping for the exploration bound).    *)
Self ==
  [board |-> board, current_piece |-> current_piece, game_over |-> game_over,
   score |-> score, last_update |-> last_update, panicked |-> panicked,
   pieces |-> pieces]

(* spawn_piece without the game_over test, assigning the flag. *)
spawn_piece_unguarded(g, k) ==
  LET p == generate_piece(k)
  IN  [g EXCEPT !.current_piece = p,
                !.game_over = piece_collides(g.board, p),
                !.pieces = g.pieces + 1]

(* spawn_piece; k is the index generate_piece draws. *)
spawn_piece(g, k) ==
  IF ~g.game_over
  THEN LET p == generate_piece(k)
       IN  [g EXCEPT !.current_piece = p,
                     !.game_over = piece_collides(g.board, p),
                     !.pieces = g.pieces + 1]
  ELSE g

(* clear_lines: retain the rows that are not full, insert one empty row at *)
(* index 0 per removed row, add 100 per removed row to the score.          *)
row_full(row) == \A i \in 1..Len(row) : row[i] # TRANSPARENT

empty_row == [i \in 1..BOARD_WIDTH |-> TRANSPARENT]

RECURSIVE insert_rows(_, _)
insert_rows(b, n) ==
  IF n = 0 THEN b ELSE insert_rows(<<empty_row>> \o b, n - 1)

(* clear_lines pushing the empty rows at the bottom. *)
clear_lines_push(g) ==
  LET retained == SelectSeq(g.board, LAMBDA row : ~row_full(row))
      lines_cleared == Len(g.board) - Len(retained)
  IN  [g EXCEPT !.board = retained \o [i \in 1..lines_cleared |-> empty_row],
                !.score = g.score + lines_cleared * 100]

(* clear_lines adding the number of lines, not 100 per line. *)
clear_lines_unscaled(g) ==
  LET retained == SelectSeq(g.board, LAMBDA row : ~row_full(row))
      lines_cleared == Len(g.board) - Len(retained)
  IN  [g EXCEPT !.board = insert_rows(retained, lines_cleared),
                !.score = g.score + lines_cleared]

(* clear_lines removing the full rows without inserting empty ones. *)
clear_lines_noinsert(g) ==
  LET retained == SelectSeq(g.board, LAMBDA row : ~row_full(row))
      lines_cleared == Len(g.board) - Len(retained)
  IN  [g EXCEPT !.board = retained,
                !.score = g.score + lines_cleared * 100]

(* clear_lines removing only the lowest full row. *)
clear_lines_single(g) ==
  LET full == {r \in 1..Len(g.board) : row_full(g.board[r])}
      last == CHOOSE r \in full : \A q \in full : q <= r
  IN  IF full = {} THEN g
      ELSE [g EXCEPT !.board = <<empty_row>> \o SubSeq(g.board, 1, last - 1)
                                  \o SubSeq(g.board, last + 1, Len(g.board)),
                     !.score = g.score + 100]

clear_lines(g) ==
  LET retained == SelectSeq(g.board, LAMBDA row : ~row_full(row))
      lines_cleared == Len(g.board) - Len(retained)
  IN  [g EXCEPT !.board = insert_rows(retained, lines_cleared),
                !.score = g.score + lines_cleared * 100]

(* The write loop of lock_piece, from mask cell (dx, dy) on.  Indexing the *)
(* board out of range panics; the result is <<board, panicked>>.           *)
RECURSIVE lock_from(_, _, _, _)
lock_from(b, p, dy, dx) ==
  IF dy >= Len(p.shape) THEN <<b, FALSE>>
  ELSE IF dx >= Len(p.shape[dy + 1]) THEN lock_from(b, p, dy + 1, 0)
  ELSE IF p.shape[dy + 1][dx + 1]
       THEN LET board_x == p.x + dx
                board_y == p.y + dy
            IN  IF board_y >= Len(b) \/ board_x >= Len(b[board_y + 1])
                THEN <<b, TRUE>>
                ELSE lock_from([b EXCEPT ![board_y + 1][board_x + 1] = p.color],
                               p, dy, dx + 1)
       ELSE lock_from(b, p, dy, dx + 1)

(* lock_piece without the clear_lines call. *)
lock_piece_noclear(g, k) ==
  LET w == lock_from(g.board, g.current_piece, 0, 0)
  IN  IF w[2]
      THEN [g EXCEPT !.board = w[1], !.panicked = TRUE]
      ELSE spawn_piece([g EXCEPT !.board = w[1]], k)

lock_piece(g, k) ==
  LET w == lock_from(g.board, g.current_piece, 0, 0)
  IN  IF w[2]
      THEN [g EXCEPT !.board = w[1], !.panicked = TRUE]
      ELSE spawn_piece(clear_lines([g EXCEPT !.board = w[1]]), k)

(* move_piece: the tentative anchor (lines 110-111), the anchor restored   *)
(* after a collision (lines 113-114), and the whole method.                *)
(* The tentative anchor ignoring the vertical displacement. *)
tentative_nofall(p, dx, dy) ==
  [p EXCEPT !.x = Max(p.x + dx, 0)]

tentative(p, dx, dy) ==
  [p EXCEPT !.x = Max(p.x + dx, 0), !.y = Max(p.y + dy, 0)]

reverted(p, dx, dy) ==
  LET t == tentative(p, dx, dy)
  IN  [t EXCEPT !.x = Max(t.x - dx, 0), !.y = Max(t.y - dy, 0)]

(* move_piece locking on every collision, not only on a downward one. *)
move_piece_anylock(g, dx, dy, k) ==
  LET t == tentative(g.current_piece, dx, dy)
  IN  IF piece_collides(g.board, t)
      THEN lock_piece([g EXCEPT !.current_piece = reverted(g.current_piece, dx, dy)], k)
      ELSE [g EXCEPT !.current_piece = t]

(* move_piece restoring the anchor only after a downward collision. *)
move_piece_keep(g, dx, dy, k) ==
  LET t == tentative(g.current_piece, dx, dy)
  IN  IF piece_collides(g.board, t)
      THEN IF dy > 0
           THEN lock_piece([g EXCEPT !.current_piece = reverted(g.current_piece, dx, dy)], k)
           ELSE [g EXCEPT !.current_piece = t]
      ELSE [g EXCEPT !.current_piece = t]

(* move_piece locking the piece where the colliding move put it. *)
move_piece_norestore(g, dx, dy, k) ==
  LET t == tentative(g.current_piece, dx, dy)
  IN  IF piece_collides(g.board, t)
      THEN IF dy > 0
           THEN lock_piece([g EXCEPT !.current_piece = t], k)
           ELSE [g EXCEPT !.current_piece = reverted(g.current_piece, dx, dy)]
      ELSE [g EXCEPT !.current_piece = t]

move_piece(g, dx, dy, k) ==
  LET t == tentative(g.current_piece, dx, dy)
  IN  IF piece_collides(g.board, t)
      THEN LET r == [g EXCEPT !.current_piece = reverted(g.current_piece, dx, dy)]
           IN  IF dy > 0 THEN lock_piece(r, k) ELSE r
      ELSE [g EXCEPT !.current_piece = t]

(* rotate_piece: the rotated mask (lines 123-130) and the whole method.    *)
(* rotate_shape skipping the last row of the old mask. *)
rotate_shape_short(old_shape) ==
  LET rows == Len(old_shape)
      cols == Len(old_shape[1])
  IN  [x \in 1..cols |->
         [c \in 1..rows |-> IF c = 1 THEN FALSE ELSE old_shape[rows + 1 - c][x]]]

rotate_shape(old_shape) ==
  LET rows == Len(old_shape)
      cols == Len(old_shape[1])
  IN  [x \in 1..cols |-> [c \in 1..rows |-> old_shape[rows + 1 - c][x]]]

(* rotate_piece keeping the rotated mask even when it collides. *)
rotate_piece_norestore(g) ==
  [g EXCEPT !.current_piece.shape = rotate_shape(g.current_piece.shape)]

rotate_piece(g) ==
  LET old_shape == g.current_piece.shape
      rotated == [g.current_piece EXCEPT !.shape = rotate_shape(old_shape)]
  IN  IF piece_collides(g.board, rotated)
      THEN g
      ELSE [g EXCEPT !.current_piece = rotated]

(* TetrisGame::update with Instant::now() = now. *)
(* update without the game_over test. *)
update_ungated(g, now, k) ==
  IF now - g.last_update >= UPDATE_INTERVAL
  THEN [move_piece(g, 0, 1, k) EXCEPT !.last_update = now]
  ELSE g

update(g, now, k) ==
  IF now - g.last_update >= UPDATE_INTERVAL /\ ~g.game_over
  THEN [move_piece(g, 0, 1, k) EXCEPT !.last_update = now]
  ELSE g

(* TetrisGame::new; k0 is the piece of the struct literal, k the one       *)
(* spawn_piece replaces it with.                                           *)
new(k0, k, now) ==
  spawn_piece([board |-> [r \in 1..BOARD_HEIGHT |-> empty_row],
               current_piece |-> generate_piece(k0),
               game_over |-> FALSE,
               score |-> 0,
               last_update |-> now,
               panicked |-> FALSE,
               pieces |-> 0], k)

occupied(b) ==
  {c \in (1..Len(b)) \X (1..BOARD_WIDTH) : b[c[1]][c[2]] # TRANSPARENT}

(* The draws of the random source a move consumes: generate_piece runs     *)
(* only when the move locks the piece.                                     *)
draws(g, dx, dy) ==
  IF dy > 0 /\ ~g.game_over /\ piece_collides(g.board, tentative(g.current_piece, dx, dy))
  THEN ShapeIndex
  ELSE {1}

Set(g) ==
  /\ g.score <= MaxScore
  /\ Cardinality(occupied(g.board)) <= MaxCells
  /\ g.pieces <= MaxPieces
  /\ board' = g.board
  /\ current_piece' = g.current_piece
  /\ game_over' = g.game_over
  /\ score' = g.score
  /\ last_update' = g.last_update
  /\ panicked' = g.panicked
  /\ pieces' = g.pieces

Init ==
  \E k0 \in ShapeIndex, k \in ShapeIndex :
    LET g == new(k0, k, 0)
    IN  /\ board = g.board
        /\ current_piece = g.current_piece
        /\ game_over = g.game_over
        /\ score = g.score
        /\ last_update = g.last_update
        /\ panicked = g.panicked
        /\ pieces = g.pieces

(* A game already under way: the states the key sequences below reach     *)
(* from construction.  Stacked1: the I piece moved to the left wall,       *)
(* dropped and locked on the bottom row.  Stacked2: a second I piece       *)
(* locked on top of it.  k is the draw of the last spawn.                  *)
RECURSIVE run_moves(_, _, _)
run_moves(g, ms, k) ==
  IF ms = <<>> THEN g
  ELSE run_moves(move_piece(g, Head(ms)[1], Head(ms)[2], k), Tail(ms), k)

DropLeft(rows) ==
  <<<<-1, 0>>, <<-1, 0>>>> \o [i \in 1..(rows + 1) |-> <<0, 1>>]

Stacked1(k) == run_moves(new(1, 1, 0), DropLeft(BOARD_HEIGHT - 1), k)

Stacked2(k) == run_moves(Stacked1(1), DropLeft(BOARD_HEIGHT - 2), k)

InitStacked ==
  \E k \in ShapeIndex : \E g \in {Stacked1(k), Stacked2(k)} :
    /\ board = g.board
    /\ current_piece = g.current_piece
    /\ game_over = g.game_over
    /\ score = g.score
    /\ last_update = g.last_update
    /\ panicked = g.panicked
    /\ pieces = 1

(* The per-frame gravity update; now is the clock reading of the frame.    *)
Update ==
  /\ ~panicked
  /\ \E now \in {last_update + UPDATE_INTERVAL - 1, last_update + UPDATE_INTERVAL} :
     \E k \in draws(Self, 0, 1) :
       /\ now <= MaxTime
       /\ Set(update(Self, now, k))

ArrowLeft == ~panicked /\ \E k \in draws(Self, -1, 0) : Set(move_piece(Self, -1, 0, k))

ArrowRight == ~panicked /\ \E k \in draws(Self, 1, 0) : Set(move_piece(Self, 1, 0, k))

ArrowDown == ~panicked /\ \E k \in draws(Self, 0, 1) : Set(move_piece(Self, 0, 1, k))

ArrowUp == ~panicked /\ Set(rotate_piece(Self))

(* The Restart button, shown only while game_over.  Only differences of   *)
(* clock readings matter, so the new game's last_update is taken to be the *)
(* old one.                                                                *)
Restart ==
  /\ ~panicked
  /\ game_over
  /\ \E k \in ShapeIndex : Set(new(k, k, last_update))

Next == Update \/ ArrowLeft \/ ArrowRight \/ ArrowDown \/ ArrowUp \/ Restart

Spec == Init /\ [][Next]_vars

SpecStacked == InitStacked /\ [][Next]_vars

(***************************************************************************)
(* Vocabulary of the properties, stated on board coordinates rather than   *)
(* on the loops of the code.                                               *)
(***************************************************************************)

(* The board coordinates <<x, y>> (0-based) of the occupied mask cells. *)
Cells(p) ==
  {<<p.x + d[1] - 1, p.y + d[2] - 1>> :
     d \in {e \in (1..Len(p.shape[1])) \X (1..Len(p.shape)) : p.shape[e[2]][e[1]]}}

InBoard(c) == c[1] \in 0..(BOARD_WIDTH - 1) /\ c[2] \in 0..(BOARD_HEIGHT - 1)

(* Some occupied cell is outside the board or on a non-empty cell. *)
Overlaps(b, p) ==
  \E c \in Cells(p) : ~InBoard(c) \/ b[c[2] + 1][c[1] + 1] # TRANSPARENT

SpawnX == BOARD_WIDTH \div 2 - 1

ShellMoves == {<<-1, 0>>, <<1, 0>>, <<0, 1>>}

(* A down move from the current state would collide (and so lock). *)
DownCollides == Overlaps(board, tentative(current_piece, 0, 1))

(* The states the key handlers and the gravity update can produce from    *)
(* the current state.                                                      *)
TickNows == {last_update + UPDATE_INTERVAL - 1, last_update + UPDATE_INTERVAL}

Moves(m) == {move_piece(Self, m[1], m[2], k) : k \in draws(Self, m[1], m[2])}

Ticks(now) == {update(Self, now, k) : k \in draws(Self, 0, 1)}

Outcomes ==
  UNION {Moves(m) : m \in ShellMoves}
  \cup {rotate_piece(Self)}
  \cup UNION {Ticks(now) : now \in TickNows}

(* C1: once game_over is true, no key event (left, right, down, rotate) or *)
(* gravity tick changes a cell of the board.                               *)
C1_BoardFrozen == game_over => \A g \in Outcomes : g.board = board

(* C2: once game_over is true, the active piece (anchor and mask) stays    *)
(* unchanged under every key event and tick, and no piece is spawned.      *)
C2_PieceFrozen ==
  game_over => \A g \in Outcomes : g.current_piece = current_piece

(* C3: game_over, once true, stays true under every move, rotation, lock,  *)
(* spawn and tick; only Restart takes it back to false, and Restart is     *)
(* enabled only in states where game_over is true.                         *)
C3_Terminal ==
  /\ game_over => \A g \in Outcomes : g.game_over
  /\ (ENABLED Restart) => game_over

(* Witness of C3: the game is over and the piece has been moved off its    *)
(* spawn column since (an operation acted after game over).                *)
C3_Witness == game_over /\ current_piece.x # SpawnX

(* C4: for each move the shell issues, if the tentatively moved piece      *)
(* collides, the anchor move_piece restores equals the anchor before the   *)
(* call.                                                                   *)
C4_Reverted ==
  \A m \in ShellMoves :
    piece_collides(board, tentative(current_piece, m[1], m[2]))
      => /\ reverted(current_piece, m[1], m[2]).x = current_piece.x
         /\ reverted(current_piece, m[1], m[2]).y = current_piece.y

(* C5: whenever a down move locks the piece, the position lock_piece       *)
(* writes is collision free: every occupied cell is inside the board on an *)
(* empty cell.                                                             *)
C5_LockValid ==
  piece_collides(board, tentative(current_piece, 0, 1))
    => ~Overlaps(board, reverted(current_piece, 0, 1))

(* The probes the code hands to piece_collides in a state: the piece       *)
(* itself, each tentative move, the rotated piece and every fresh piece.   *)
Probes ==
  {current_piece,
   [current_piece EXCEPT !.shape = rotate_shape(current_piece.shape)]}
  \cup {tentative(current_piece, m[1], m[2]) : m \in ShellMoves}
  \cup {generate_piece(k) : k \in ShapeIndex}

(* C6: piece_collides is true exactly when some occupied mask cell maps    *)
(* outside the board or onto a non-empty cell; unoccupied mask cells never *)
(* count.                                                                  *)
C6_Collides == \A p \in Probes : piece_collides(board, p) <=> Overlaps(board, p)

(* Witness of C6: the piece does not collide although an unoccupied cell   *)
(* of its mask lies outside the board.                                     *)
C6_Witness ==
  /\ ~piece_collides(board, current_piece)
  /\ \E d \in (1..Len(current_piece.shape[1])) \X (1..Len(current_piece.shape)) :
       /\ ~current_piece.shape[d[2]][d[1]]
       /\ ~InBoard(<<current_piece.x + d[1] - 1, current_piece.y + d[2] - 1>>)

(* The rows of b that are entirely non-empty, and the relation between a   *)
(* board b and the board b2 with exactly those rows removed.               *)
FullRows(b) ==
  {i \in 1..Len(b) : \A j \in 1..BOARD_WIDTH : b[i][j] # TRANSPARENT}

ClearRel(b, b2) ==
  LET n == Cardinality(FullRows(b))
  IN  /\ Len(b2) = Len(b)
      /\ \A i \in 1..n : \A j \in 1..BOARD_WIDTH : b2[i][j] = TRANSPARENT
      /\ \A i \in (1..Len(b)) \ FullRows(b) :
           b2[i + Cardinality({f \in FullRows(b) : f > i})] = b[i]

(* clear_lines on its own, applied to boards built from a few row          *)
(* patterns: empty, full, full in two colors, one cell missing, one cell   *)
(* set.                                                                    *)
RowPatterns ==
  {empty_row,
   [i \in 1..BOARD_WIDTH |-> "KHAKI"],
   [i \in 1..BOARD_WIDTH |-> IF i % 2 = 0 THEN "RED" ELSE "BLUE"],
   [i \in 1..BOARD_WIDTH |-> IF i = BOARD_WIDTH THEN TRANSPARENT ELSE "GOLD"],
   [i \in 1..BOARD_WIDTH |-> IF i = 1 THEN "GREEN" ELSE TRANSPARENT]}

InitClearLines ==
  /\ board \in [1..BOARD_HEIGHT -> RowPatterns]
  /\ current_piece = generate_piece(1)
  /\ game_over = FALSE
  /\ score = 0
  /\ last_update = 0
  /\ panicked = FALSE
  /\ pieces = 1

ClearLines ==
  LET g == clear_lines(Self)
  IN  /\ board' = g.board
      /\ score' = g.score
      /\ UNCHANGED <<current_piece, game_over, last_update, panicked, pieces>>

SpecClearLines == InitClearLines /\ [][ClearLines]_vars

(* C7: clear_lines removes exactly the full rows, keeps the other rows in  *)
(* order at the bottom, each shifted down by the number of full rows that  *)
(* were below it, and fills the top with as many empty rows.               *)
C7_ClearLines == [][ClearRel(board, board')]_vars

(* Witness of C7: two rows were cleared (the score went from 0 to 200) and *)
(* two different surviving rows sit below two empty rows.                  *)
C7_Witness ==
  /\ score = 200
  /\ board[1] = empty_row /\ board[2] = empty_row
  /\ board[3] # empty_row /\ board[4] # empty_row /\ board[3] # board[4]

(* The board after the write loop of a lock of piece p. *)
Written(b, p) ==
  [r \in 1..BOARD_HEIGHT |->
     [c \in 1..BOARD_WIDTH |->
        IF <<c - 1, r - 1>> \in Cells(p) THEN p.color ELSE b[r][c]]]

(* The number of rows a lock of the current piece fills. *)
LockFills == Cardinality(FullRows(Written(board, current_piece)))

(* C8: over the operations of a game (move, rotate, lock, tick) the score  *)
(* never decreases; it changes only in a lock, which adds exactly 100 per  *)
(* full row of the board just written (nothing when no row is full).       *)
C8_Score ==
  /\ \A m \in ShellMoves : \A g \in Moves(m) :
       g.score = score + (IF m = <<0, 1>> /\ DownCollides THEN 100 * LockFills ELSE 0)
  /\ rotate_piece(Self).score = score
  /\ \A now \in TickNows : \A g \in Ticks(now) :
       g.score = score + (IF now - last_update >= UPDATE_INTERVAL /\ ~game_over
                             /\ DownCollides
                          THEN 100 * LockFills ELSE 0)

(* Witness of C8: one lock has cleared two rows at once. *)
C8_Witness == score = 200 /\ pieces = 2

(* C9: when the game is not over and the piece rests, one move_piece(0, 1) *)
(* locks it once: its cells are written at the anchor it had, full rows    *)
(* are cleared, and then a fresh template piece is at the spawn anchor,    *)
(* with game_over set exactly when that piece collides.                    *)
C9_LockOnce ==
  (~game_over /\ DownCollides) =>
    \A g \in Moves(<<0, 1>>) \cup Ticks(last_update + UPDATE_INTERVAL) :
      /\ ClearRel(Written(board, current_piece), g.board)
      /\ \E k \in ShapeIndex :
           g.current_piece = [shape |-> shapes[k].shape, color |-> shapes[k].color,
                              x |-> SpawnX, y |-> 0]
      /\ g.game_over = Overlaps(g.board, g.current_piece)
      /\ g.pieces = pieces + 1
      /\ ~g.panicked

(* Witness of C9: a piece has been locked, completing a row that was      *)
(* cleared, and the next piece is active at the spawn anchor.              *)
C9_Witness ==
  /\ ~game_over /\ pieces = 2 /\ score = 100
  /\ current_piece.x = SpawnX /\ current_piece.y = 0
  /\ Cardinality(occupied(board)) = 2

(* The piece with its mask rotated once, whatever it collides with. *)
Rotated(p) == [p EXCEPT !.shape = rotate_shape(p.shape)]

(* None of four successive rotations of the current piece collides. *)
FourFree ==
  \A n \in 1..4 :
    ~Overlaps(board, IF n = 1 THEN Rotated(current_piece)
                     ELSE IF n = 2 THEN Rotated(Rotated(current_piece))
                     ELSE IF n = 3 THEN Rotated(Rotated(Rotated(current_piece)))
                     ELSE Rotated(Rotated(Rotated(Rotated(current_piece)))))

(* C10: four rotate_piece calls in a row, none of which collides, give     *)
(* back the original mask at the unchanged anchor.                         *)
C10_FourRotations ==
  FourFree =>
    rotate_piece(rotate_piece(rotate_piece(rotate_piece(Self)))).current_piece
      = current_piece

(* Witness of C10: the I piece stands upright (rotated once) where all     *)
(* four rotations fit.                                                     *)
C10_Witness ==
  /\ FourFree
  /\ current_piece.shape = rotate_shape(shapes[1].shape)
  /\ current_piece.x # SpawnX

(* C11: rotate_piece never changes the anchor, the board, the score or the *)
(* game-over flag, and when the rotated mask collides at the unchanged     *)
(* anchor the mask after the call is the mask before it.                   *)
C11_RotateFrame ==
  LET g == rotate_piece(Self)
  IN  /\ g.current_piece.x = current_piece.x
      /\ g.current_piece.y = current_piece.y
      /\ g.board = board
      /\ g.score = score
      /\ g.game_over = game_over
      /\ Overlaps(board, Rotated(current_piece))
           => g.current_piece.shape = current_piece.shape

(* Witness of C11: a running game whose piece has been rotated before and  *)
(* now stands where the next rotation collides.                            *)
C11_Witness ==
  /\ ~game_over
  /\ Overlaps(board, Rotated(current_piece))
  /\ \A k \in ShapeIndex : current_piece.shape # shapes[k].shape

(* C12: move_piece(-1, 0) and move_piece(1, 0) never lock: in every        *)
(* reachable state they leave the board, the score, the game-over flag,    *)
(* the mask and the y coordinate as they were, and spawn nothing.          *)
C12_SidewaysFrame ==
  \A m \in {<<-1, 0>>, <<1, 0>>} : \A g \in Moves(m) :
    /\ g.board = board
    /\ g.score = score
    /\ g.game_over = game_over
    /\ g.current_piece.shape = current_piece.shape
    /\ g.current_piece.y = current_piece.y
    /\ g.pieces = pieces

(* Witness of C12: in a running game the piece stands at column 0 with a   *)
(* locked cell in the way of a move to the right.                          *)
C12_Witness ==
  /\ ~game_over
  /\ current_piece.x = 0
  /\ \E c \in Cells(tentative(current_piece, 1, 0)) :
       InBoard(c) /\ board[c[2] + 1][c[1] + 1] # TRANSPARENT

(* C13: the gravity tick acts only when at least UPDATE_INTERVAL has       *)
(* elapsed since the last tick and the game is not over; it then makes one *)
(* downward move (the piece goes down one row, or it is locked, the full   *)
(* rows are cleared and scored and a piece is spawned) and sets the        *)
(* last-tick timestamp to the clock reading. Otherwise the update leaves   *)
(* the whole game state as it was.                                         *)
C13_Gravity ==
  \A now \in TickNows : \A g \in Ticks(now) :
    IF now - last_update >= UPDATE_INTERVAL /\ ~game_over
    THEN /\ g.last_update = now
         /\ IF DownCollides
            THEN /\ ClearRel(Written(board, current_piece), g.board)
                 /\ g.score = score + 100 * LockFills
                 /\ g.pieces = pieces + 1
            ELSE /\ g.current_piece = [current_piece EXCEPT !.y = @ + 1]
                 /\ g.board = board
                 /\ g.score = score
                 /\ g.game_over = game_over
                 /\ g.pieces = pieces
    ELSE g = Self

(* Witness of C13: a tick has acted (the timestamp is no longer the one of *)
(* construction) and the game is now over, so further updates do nothing.  *)
C13_Witness == last_update = UPDATE_INTERVAL /\ game_over

(* A freshly constructed game: every cell empty, score 0, not over, the    *)
(* active piece one of the 7 templates at the spawn anchor.                *)
Fresh(g) ==
  /\ g.board = [r \in 1..BOARD_HEIGHT |-> [c \in 1..BOARD_WIDTH |-> TRANSPARENT]]
  /\ g.score = 0
  /\ ~g.game_over
  /\ \E k \in ShapeIndex :
       g.current_piece = [shape |-> shapes[k].shape, color |-> shapes[k].color,
                          x |-> SpawnX, y |-> 0]

(* C14: construction yields a fresh state whatever pieces are drawn, and   *)
(* never game_over = TRUE; every restart step ends in a fresh state,       *)
(* whatever the board and the score were before it.                        *)
C14_Fresh ==
  /\ \A k0 \in ShapeIndex : \A k \in ShapeIndex : Fresh(new(k0, k, 0))
  /\ [][Restart => Fresh(Self)']_vars

(* Witness of C14: the state after a restart. The initial boards of        *)
(* SpecStacked hold locked cells and a line clear raises the score, so an  *)
(* empty board with score 0 is reached only by Restart.                    *)
C14_Witness ==
  /\ occupied(board) = {}
  /\ score = 0
  /\ ~game_over
  /\ current_piece.y = 0

(* C15: in every reachable state the board has exactly BOARD_HEIGHT rows   *)
(* and every row has exactly BOARD_WIDTH cells.                            *)
C15_Dimensions ==
  /\ Len(board) = BOARD_HEIGHT
  /\ \A r \in 1..Len(board) : Len(board[r]) = BOARD_WIDTH

(* Witness of C15: a line has been cleared and locked cells remain.        *)
C15_Witness == score = 100 /\ Cardinality(occupied(board)) = 6

(* The state after downward moves only, up to and including the one that   *)
(* locks the piece; k is the piece spawned by the lock.                    *)
RECURSIVE drop_until_lock(_, _, _)
drop_until_lock(g, k, fuel) ==
  LET h == move_piece(g, 0, 1, k)
  IN  IF h.pieces # g.pieces \/ fuel = 0 THEN h
      ELSE drop_until_lock(h, k, fuel - 1)

(* The piece p moved straight down until its lowest occupied cells are on  *)
(* the bottom row.                                                         *)
Landed(p) ==
  LET rows == {c[2] : c \in Cells([p EXCEPT !.y = 0])}
      lowest == CHOOSE m \in rows : \A n \in rows : n <= m
  IN  [p EXCEPT !.y = BOARD_HEIGHT - 1 - lowest]

(* The four cells (row, column) of the O piece dropped from the spawn      *)
(* anchor: the two spawn columns on the two bottom rows.                   *)
OLanded ==
  {BOARD_HEIGHT - 1, BOARD_HEIGHT} \X {SpawnX + 1, SpawnX + 2}

(* C16: on an empty board a freshly spawned piece that receives only       *)
(* downward moves until it collides is locked with its lowest occupied     *)
(* cells on the bottom row (the O piece on the two spawn columns of the    *)
(* two bottom rows), no other cell becomes non-empty and the score stays 0.*)
C16_DropOnEmpty ==
  Fresh(Self) =>
    \A k \in ShapeIndex :
      LET g == drop_until_lock(Self, k, BOARD_HEIGHT)
      IN  /\ g.pieces = pieces + 1
          /\ g.board = Written(board, Landed(current_piece))
          /\ \E c \in occupied(g.board) : c[1] = BOARD_HEIGHT
          /\ current_piece.color = "YELLOW" => occupied(g.board) = OLanded
          /\ g.score = 0
          /\ ~g.panicked

(* Witness of C16: the O piece has been locked on the empty board right    *)
(* below the spawn anchor.                                                 *)
C16_Witness ==
  /\ pieces = 2
  /\ score = 0
  /\ occupied(board) = OLanded
  /\ \A c \in OLanded : board[c[1]][c[2]] = "YELLOW"

(* C17: in every reachable state where the game is not over the active     *)
(* piece does not collide: each of its occupied cells is inside the board  *)
(* on an empty cell.                                                       *)
C17_PieceFree == ~game_over => ~Overlaps(board, current_piece)

(* Witness of C17: in a running game the second piece has been rotated and *)
(* moved off the spawn column and now rests on locked cells above the      *)
(* bottom row.                                                             *)
C17_Witness ==
  /\ ~game_over
  /\ pieces = 2
  /\ current_piece.x # SpawnX
  /\ \A k \in ShapeIndex : current_piece.shape # shapes[k].shape
  /\ DownCollides
  /\ \A c \in Cells(tentative(current_piece, 0, 1)) : InBoard(c)

(* C18: no reachable sequence of key events and ticks, those after game    *)
(* over included, makes piece_collides or lock_piece index the board out   *)
(* of range: the board keeps the rows and columns piece_collides indexes   *)
(* after its range tests, no move, rotation or tick panics, and every      *)
(* occupied cell of the piece is inside the board when lock_piece writes   *)
(* it.                                                                     *)
C18_NoPanic ==
  /\ ~panicked
  /\ Len(board) >= BOARD_HEIGHT
  /\ \A r \in 1..BOARD_HEIGHT : Len(board[r]) >= BOARD_WIDTH
  /\ \A g \in Outcomes : ~g.panicked
  /\ \A c \in Cells(current_piece) : InBoard(c)
  /\ DownCollides =>
       \A c \in Cells(reverted(current_piece, 0, 1)) : InBoard(c)

(* Witness of C18: after game over the colliding piece has been moved off  *)
(* the spawn column to the left wall, where a further ArrowLeft collides.  *)
C18_Witness ==
  /\ game_over
  /\ current_piece.x = 0
  /\ Overlaps(board, current_piece)
  /\ DownCollides

(* C19: after any move, rotation, tick or restart has completed no board   *)
(* row is completely non-empty.                                            *)
C19_NoFullRow == FullRows(board) = {}

(* Witness of C19: a lock has filled a row, the row has been cleared and   *)
(* the next piece is on its way down over the cells that remain.           *)
C19_Witness ==
  /\ score = 100
  /\ ~game_over
  /\ Cardinality(occupied(board)) = 2
  /\ current_piece.y > 0

(* The gravity tick of a frame drawn once the interval has elapsed in a    *)
(* running game: update's move_piece(0, 1), written out call by call       *)
(* (tentative anchor, collision test, restored anchor, write loop,         *)
(* clear_lines, spawn_piece) with every intermediate game state bound      *)
(* once. The clock is read relative to the latest tick: only differences   *)
(* of clock readings enter update, so the timestamp it stores is again the *)
(* origin of the clock and ticks never run out.                            *)
Gravity ==
  /\ ~panicked
  /\ ~game_over
  /\ \E t \in {tentative(current_piece, 0, 1)} :
       IF piece_collides(board, t)
       THEN \E r \in {reverted(current_piece, 0, 1)} :
            \E w \in {lock_from(board, r, 0, 0)} :
              IF w[2]
              THEN Set([Self EXCEPT !.board = w[1], !.current_piece = r,
                                    !.panicked = TRUE])
              ELSE \E c \in {clear_lines([Self EXCEPT !.board = w[1],
                                                      !.current_piece = r])} :
                   \E k \in ShapeIndex :
                   \E s \in {spawn_piece(c, k)} : Set(s)
       ELSE Set([Self EXCEPT !.current_piece = t])

(* The game played with left, right and rotate keys only; every frame asks *)
(* for the next one (ctx.request_repaint), so a tick that stays possible   *)
(* is eventually taken.                                                    *)
NextLive == Gravity \/ ArrowLeft \/ ArrowRight \/ ArrowUp \/ Restart

SpecLive == Init /\ [][NextLive]_vars /\ WF_vars(Gravity)

(* C20: while the game is not over every tick lowers the piece by one row  *)
(* or locks it, no left, right or rotate input changes its row or spawns,  *)
(* and its anchor row never exceeds BOARD_HEIGHT - 1; the anchor row of a  *)
(* piece spawned at row 0 counts the ticks it has received, so it is       *)
(* locked by its BOARD_HEIGHT-th tick at the latest. Under fair ticks the  *)
(* first piece of every game is eventually locked (the second piece of a   *)
(* game is the last one the exploration bound MaxPieces lets spawn).       *)
C20_LockedInTime ==
  /\ [](~game_over =>
          /\ current_piece.y <= BOARD_HEIGHT - 1
          /\ \A g \in Ticks(last_update + UPDATE_INTERVAL) :
               \/ g.pieces = pieces + 1
               \/ /\ g.pieces = pieces
                  /\ g.current_piece.y = current_piece.y + 1
          /\ \A g \in Moves(<<-1, 0>>) \cup Moves(<<1, 0>>) \cup {rotate_piece(Self)} :
               /\ g.current_piece.y = current_piece.y
               /\ g.pieces = pieces)
  /\ (pieces = 1) ~> (pieces = 2)

(* Witness of C20: the first piece has been shifted to the left wall while *)
(* the ticks took it down, and it has been locked on the bottom row.       *)
C20_Witness ==
  /\ pieces = 2
  /\ ~game_over
  /\ board[BOARD_HEIGHT][1] # TRANSPARENT

====
